---- MODULE Spec2Model ----
(***************************************************************************)
(* The linting engine of openhands_py311/linter/linter.py: LintResult,     *)
(* the language registry, the external-tool runner, the fallback analyzer, *)
(* lint and lint_file_diff.                                                *)
(*                                                                         *)
(* A Python str is a sequence of one-character strings; a message built    *)
(* by an f-string is the sequence of its literal pieces and its inserted   *)
(* values. Python's None is the value NONE.                                *)
(***************************************************************************)
EXTENDS Integers, Sequences, FiniteSets, TLC

VARIABLES
    fs,         \* the filesystem: path -> [readable, data]; its domain is what os.path.exists sees
    installed,  \* the executables shutil.which finds on the search path
    tool,       \* how the external check command behaves on this host
    writeFails, \* writing the code into a new temporary file fails on this host
    tmpFiles,   \* the temporary files that exist
    call        \* the last API call: its arguments, its outcome and what it did

vars == <<fs, installed, tool, writeFails, tmpFiles, call>>

\* ------------------------------------------------------------------ bounds

MaxLen == 2

MaxPieces == 3

MaxCalls == 2

\* ------------------------------------------------------------- Python values

NONE == <<"None">>

\* "not s" for an Optional[str]
Falsy(s) == s = NONE \/ s = <<>>

\* "not xs" for a list
IsEmpty(xs) == Len(xs) = 0

Max(S) == CHOOSE m \in S : \A n \in S : n <= m

Min(S) == CHOOSE m \in S : \A n \in S : m <= n

\* sub occurs in text at index i (1-based)
OccursAt(text, sub, i) ==
    /\ i >= 1
    /\ i + Len(sub) - 1 <= Len(text)
    /\ \A k \in 1..Len(sub) : text[i + k - 1] = sub[k]

\* Python: sub in text
Contains(text, sub) == \E i \in 1..(Len(text) + 1) : OccursAt(text, sub, i)

\* Python: text.find(sub), 0-based, -1 when absent
Find(text, sub) ==
    IF Contains(text, sub)
    THEN Min({i \in 1..(Len(text) + 1) : OccursAt(text, sub, i)}) - 1
    ELSE -1

\* Python: text.split(sep)[0]
SplitFirst(text, sep) ==
    IF Contains(text, sep) THEN SubSeq(text, 1, Find(text, sep)) ELSE text

\* Python: text.split(sep), all the pieces
RECURSIVE Split(_, _)
Split(text, sep) ==
    IF Contains(text, sep)
    THEN <<SplitFirst(text, sep)>>
         \o Split(SubSeq(text, Find(text, sep) + Len(sep) + 1, Len(text)), sep)
    ELSE <<text>>

Whitespace == {" ", "\t", "\r", "\n", "\f"}

\* Python: text.strip()
Strip(text) ==
    LET keep == {i \in 1..Len(text) : text[i] \notin Whitespace}
    IN  IF keep = {} THEN <<>> ELSE SubSeq(text, Min(keep), Max(keep))

StartsWith(text, sub) == OccursAt(text, sub, 1)

EndsWith(text, sub) == OccursAt(text, sub, Len(text) - Len(sub) + 1)

\* ---------------------------------------------------------------- LintResult

\* LintResult(success=..., file_path=...): the two ways the code constructs one
LintResult(success, file_path) ==
    [success   |-> success,
     errors    |-> <<>>,
     warnings  |-> <<>>,
     line      |-> NONE,
     column    |-> NONE,
     message   |-> NONE,
     file_path |-> file_path]

Finding(line, column, message, file_path) ==
    [line |-> line, column |-> column, message |-> message, file_path |-> file_path]

\* the Finding is stored without its file path
add_error_no_path(self, line, column, message, file_path) ==
    LET errors == Append(self.errors, Finding(line, column, message, NONE))
    IN  IF Len(errors) = 1
        THEN [self EXCEPT !.errors = errors, !.success = FALSE,
                          !.line = line, !.column = column,
                          !.message = message, !.file_path = NONE]
        ELSE [self EXCEPT !.errors = errors, !.success = FALSE]

add_error(self, line, column, message, file_path) ==
    LET errors == Append(self.errors, Finding(line, column, message, file_path))
    IN  IF Len(errors) = 1
        THEN [self EXCEPT !.errors = errors, !.success = FALSE,
                          !.line = line, !.column = column,
                          !.message = message, !.file_path = file_path]
        ELSE [self EXCEPT !.errors = errors, !.success = FALSE]

add_warning(self, line, column, message, file_path) ==
    [self EXCEPT !.warnings = Append(@, Finding(line, column, message, file_path))]

\* ------------------------------------------------------------ the registry

PY == <<"p", "y">>
JS == <<"j", "s">>
TS == <<"t", "s">>
JSX == <<"j", "s", "x">>
TSX == <<"t", "s", "x">>
SWIFT == <<"s", "w", "i", "f", "t">>
CPP == <<"c", "p", "p">>
C == <<"c">>
LUA == <<"l", "u", "a">>
LUAU == <<"l", "u", "a", "u">>
HTML == <<"h", "t", "m", "l">>
CSS == <<"c", "s", "s">>

\* r"^(.+):(\d+):(\d+): (.+)$" as the literals between its four groups
ColonRegex == <<<<":">>, <<":">>, <<":", " ">>>>

\* r"^(.+): line (\d+), col (\d+), (.+)$"
CompactRegex ==
    <<<<":", " ", "l", "i", "n", "e", " ">>,
      <<",", " ", "c", "o", "l", " ">>,
      <<",", " ">>>>

Hash == <<"#">>
Slashes == <<"/", "/">>
Dashes == <<"-", "-">>

\* check_command is NONE where the configuration has no such key
language_configs ==
    [language \in {PY, JS, TS, JSX, TSX, SWIFT, CPP, C, LUA, LUAU, HTML, CSS} |->
        CASE language = PY    -> [regex |-> ColonRegex, comment_style |-> Hash,
                                  check_command |-> <<"python", "-m", "py_compile">>]
          [] language = JS    -> [regex |-> CompactRegex, comment_style |-> Slashes,
                                  check_command |-> <<"node", "--check">>]
          [] language = TS    -> [regex |-> CompactRegex, comment_style |-> Slashes,
                                  check_command |-> <<"tsc", "--noEmit">>]
          [] language = JSX   -> [regex |-> CompactRegex, comment_style |-> Slashes,
                                  check_command |-> <<"node", "--check">>]
          [] language = TSX   -> [regex |-> CompactRegex, comment_style |-> Slashes,
                                  check_command |-> <<"tsc", "--noEmit">>]
          [] language = SWIFT -> [regex |-> ColonRegex, comment_style |-> Slashes,
                                  check_command |-> <<"swift", "-syntax-only">>]
          [] language = CPP   -> [regex |-> ColonRegex, comment_style |-> Slashes,
                                  check_command |-> <<"clang++", "-fsyntax-only", "-std=c++17">>]
          [] language = C     -> [regex |-> ColonRegex, comment_style |-> Slashes,
                                  check_command |-> <<"clang", "-fsyntax-only">>]
          [] language = LUA   -> [regex |-> ColonRegex, comment_style |-> Dashes,
                                  check_command |-> <<"luac", "-p">>]
          [] language = LUAU  -> [regex |-> ColonRegex, comment_style |-> Dashes,
                                  check_command |-> <<"luau", "--parse">>]
          [] language = HTML  -> [regex |-> CompactRegex, comment_style |-> <<"<", "!", "-", "-">>,
                                  check_command |-> NONE]
          [] language = CSS   -> [regex |-> ColonRegex, comment_style |-> <<"/", "*">>,
                                  check_command |-> NONE]]

\* os.path.splitext(file_path)[1]: from the last dot of the last path component,
\* unless that dot only leads the component
splitext1(file_path) ==
    LET seps == {i \in 1..Len(file_path) : file_path[i] = "/"}
        base == IF seps = {} THEN 1 ELSE Max(seps) + 1
        dots == {i \in base..Len(file_path) : file_path[i] = "."}
    IN  IF dots = {} THEN <<>>
        ELSE IF \A i \in base..Max(dots) : file_path[i] = "." THEN <<>>
        ELSE SubSeq(file_path, Max(dots), Len(file_path))

\* Python: text.lstrip('.')
lstripDots(text) ==
    LET keep == {i \in 1..Len(text) : text[i] # "."}
    IN  IF keep = {} THEN <<>> ELSE SubSeq(text, Min(keep), Len(text))

_get_language_from_file(file_path) ==
    LET ext == lstripDots(splitext1(file_path))
    IN  IF ext \in DOMAIN language_configs THEN ext ELSE NONE

_is_tool_available(command) == command \in installed

\* ------------------------------------------------------ the fallback analyzer

\* every opening bracket is taken to be closed by ")"
brackets_round == [open \in {"(", "[", "{"} |-> ")"]

brackets == [open \in {"(", "[", "{"} |->
                CASE open = "(" -> ")" [] open = "[" -> "]" [] open = "{" -> "}"]

\* the closing brackets without the round one
closers_square == {"]", "}"}

closers == {brackets[open] : open \in DOMAIN brackets}

\* ast.parse(code), the in-process parser: ok when it accepts the code, else the
\* SyntaxError's lineno, offset and text. What CPython 3.11 answers for a code of
\* brackets and line breaks: the first closer that does not close the innermost
\* open bracket, else the innermost bracket still open at the end. Any other
\* character is passed over.
RECURSIVE ast_scan(_, _, _, _, _)
ast_scan(code, i, lineno, offset, stack) ==
    IF i > Len(code)
    THEN IF stack = <<>> THEN [ok |-> TRUE]
         ELSE LET top == stack[Len(stack)]
              IN  [ok |-> FALSE, lineno |-> top[2], offset |-> top[3],
                   text |-> <<"'", top[1], "' was never closed (<unknown>, line ",
                              ToString(top[2]), ")">>]
    ELSE LET char == code[i]
         IN  IF char = "\n" THEN ast_scan(code, i + 1, lineno + 1, 1, stack)
             ELSE IF char \in DOMAIN brackets
             THEN ast_scan(code, i + 1, lineno, offset + 1,
                           Append(stack, <<char, lineno, offset>>))
             ELSE IF char \in closers
             THEN IF stack = <<>>
                  THEN [ok |-> FALSE, lineno |-> lineno, offset |-> offset,
                        text |-> <<"unmatched '", char, "' (<unknown>, line ",
                                   ToString(lineno), ")">>]
                  ELSE IF brackets[stack[Len(stack)][1]] # char
                  THEN [ok |-> FALSE, lineno |-> lineno, offset |-> offset,
                        text |-> <<"closing parenthesis '", char,
                                   "' does not match opening parenthesis '",
                                   stack[Len(stack)][1], "' (<unknown>, line ",
                                   ToString(lineno), ")">>]
                  ELSE ast_scan(code, i + 1, lineno, offset + 1,
                                SubSeq(stack, 1, Len(stack) - 1))
             ELSE ast_scan(code, i + 1, lineno, offset + 1, stack)

ast_parse(code) == ast_scan(code, 1, 1, 1, <<>>)

\* "e.lineno or 1", "e.offset or 1"
OrOne(n) == IF n = 0 THEN 1 ELSE n

\* the line is scanned whole, comment and all
SkipComment_keep(line, comment_style) == line

\* the line with its comment cut off, as the bracket scan sees it
SkipComment(line, comment_style) ==
    IF comment_style = Hash /\ Contains(line, Hash) THEN SplitFirst(line, Hash)
    ELSE IF comment_style = Slashes /\ Contains(line, Slashes) THEN SplitFirst(line, Slashes)
    ELSE IF comment_style = Dashes /\ Contains(line, Dashes) THEN SplitFirst(line, Dashes)
    ELSE line

\* one character of a scan that takes no notice of quotes
ScanChar_no_strings(st, char, line_num, col_num) ==
    IF char \in DOMAIN brackets
    THEN [st EXCEPT !.stack = Append(@, <<char, line_num, col_num>>)]
    ELSE IF char \in closers
    THEN IF st.stack = <<>> \/ brackets[st.stack[Len(st.stack)][1]] # char
         THEN [st EXCEPT !.results = Append(@,
                  add_error(LintResult(FALSE, NONE), line_num, col_num,
                            <<"Mismatched bracket: '", char, "'">>, NONE))]
         ELSE [st EXCEPT !.stack = SubSeq(@, 1, Len(@) - 1)]
    ELSE st

\* one character of the scan; st holds stack, results, in_string, string_char
ScanChar(st, char, line_num, col_num) ==
    IF char \in {"\"", "'"}
    THEN IF ~st.in_string
         THEN [st EXCEPT !.in_string = TRUE, !.string_char = char]
         ELSE IF char = st.string_char
         THEN [st EXCEPT !.in_string = FALSE, !.string_char = "None"]
         ELSE st
    ELSE IF st.in_string THEN st
    ELSE IF char \in DOMAIN brackets
    THEN [st EXCEPT !.stack = Append(@, <<char, line_num, col_num>>)]
    ELSE IF char \in closers
    THEN IF st.stack = <<>> \/ brackets[st.stack[Len(st.stack)][1]] # char
         THEN [st EXCEPT !.results = Append(@,
                  add_error(LintResult(FALSE, NONE), line_num, col_num,
                            <<"Mismatched bracket: '", char, "'">>, NONE))]
         ELSE [st EXCEPT !.stack = SubSeq(@, 1, Len(@) - 1)]
    ELSE st

RECURSIVE ScanLine(_, _, _, _)
ScanLine(st, line, line_num, col_num) ==
    IF col_num > Len(line) THEN st
    ELSE ScanLine(ScanChar(st, line[col_num], line_num, col_num),
                  line, line_num, col_num + 1)

\* the loop over the lines: in_string starts false on every line
RECURSIVE ScanLines(_, _, _, _)
ScanLines(st, lines, line_num, comment_style) ==
    IF line_num > Len(lines) THEN st
    ELSE ScanLines(
            ScanLine([st EXCEPT !.in_string = FALSE, !.string_char = "None"],
                     SkipComment(lines[line_num], comment_style), line_num, 1),
            lines, line_num + 1, comment_style)

\* one result, for the bracket at the bottom of the stack only
Unclosed_first(stack, i) ==
    IF stack = <<>> THEN <<>>
    ELSE <<add_error(LintResult(FALSE, NONE), stack[1][2], stack[1][3],
                     <<"Unclosed bracket: '", stack[1][1], "'">>, NONE)>>

\* one result for every bracket left on the stack, bottom first
RECURSIVE Unclosed(_, _)
Unclosed(stack, i) ==
    IF i > Len(stack) THEN <<>>
    ELSE <<add_error(LintResult(FALSE, NONE), stack[i][2], stack[i][3],
                     <<"Unclosed bracket: '", stack[i][1], "'">>, NONE)>>
         \o Unclosed(stack, i + 1)

Keywords ==
    {<<"i", "f">>, <<"e", "l", "s", "e">>, <<"f", "o", "r">>, <<"w", "h", "i", "l", "e">>,
     <<"s", "w", "i", "t", "c", "h">>, <<"c", "a", "s", "e">>, <<"f", "u", "n", "c">>,
     <<"c", "l", "a", "s", "s">>, <<"s", "t", "r", "u", "c", "t">>}

\* swift, cpp, c: a statement line that does not end as one
RECURSIVE MissingSemicolons(_, _, _)
MissingSemicolons(lines, line_num, comment_style) ==
    IF line_num > Len(lines) THEN <<>>
    ELSE LET raw  == lines[line_num]
             line == Strip(raw)
             skip == \/ (comment_style = Slashes /\ Contains(raw, Slashes))
                     \/ StartsWith(Strip(raw), Hash)
             flag == /\ ~skip
                     /\ line # <<>>
                     /\ ~EndsWith(line, <<";">>)
                     /\ ~EndsWith(line, <<"{">>)
                     /\ ~EndsWith(line, <<"}">>)
                     /\ ~EndsWith(line, <<":">>)
                     /\ ~StartsWith(line, Hash)
                     /\ ~\E keyword \in Keywords : Contains(line, keyword)
         IN  (IF flag
              THEN <<add_error(LintResult(FALSE, NONE), line_num, Len(line),
                               <<"Missing semicolon at end of line">>, NONE)>>
              ELSE <<>>)
             \o MissingSemicolons(lines, line_num + 1, comment_style)

\* lua, luau: "=" in a condition
RECURSIVE AssignmentInCondition(_, _)
AssignmentInCondition(lines, line_num) ==
    IF line_num > Len(lines) THEN <<>>
    ELSE LET line == SplitFirst(lines[line_num], Dashes)
             flag == /\ Contains(line, <<"i", "f">>)
                     /\ Contains(line, <<"=">>)
                     /\ ~Contains(line, <<"=", "=">>)
                     /\ ~Contains(line, <<"~", "=">>)
         IN  (IF flag
              THEN <<add_error(LintResult(FALSE, NONE), line_num, Find(line, <<"=">>),
                               <<"Possible use of assignment (=) instead of equality (==) in condition">>,
                               NONE)>>
              ELSE <<>>)
             \o AssignmentInCondition(lines, line_num + 1)

_check_basic_syntax(code, language) ==
    IF language = PY
    THEN LET e == ast_parse(code)
         IN  IF e.ok THEN <<>>
             ELSE <<add_error(LintResult(FALSE, NONE), OrOne(e.lineno), OrOne(e.offset),
                              <<"SyntaxError: ">> \o e.text, NONE)>>
    ELSE LET lines == Split(code, <<"\n">>)
             comment_style ==
                 IF language \in DOMAIN language_configs
                 THEN language_configs[language].comment_style
                 ELSE Slashes
             scan == ScanLines([stack |-> <<>>, results |-> <<>>,
                                in_string |-> FALSE, string_char |-> "None"],
                               lines, 1, comment_style)
         IN  scan.results
             \o Unclosed(scan.stack, 1)
             \o (IF language \in {SWIFT, CPP, C}
                 THEN MissingSemicolons(lines, 1, comment_style)
                 ELSE IF language \in {LUA, LUAU}
                 THEN AssignmentInCondition(lines, 1)
                 ELSE <<>>)

\* -------------------------------------------------- the external-tool runner

TmpNames == {"/tmp/tmpA", "/tmp/tmpB"}

\* tempfile.NamedTemporaryFile(suffix=f".{language}"): a name no file has yet
TempPath(name, language) == <<name, ".">> \o language

\* What the check command prints, by the host's tool:
\*   accept     exit 0
\*   silent     exit 1 and prints nothing
\*   colon      exit 1, one diagnostic "<file>:2:1: E" on stderr
\*   compact    exit 1, one diagnostic "<file>: line 2, col 1, E" on stderr
\*   traceback  exit 1, a traceback naming the file and a summary line on stderr
\*   stdout     exit 1, the colon diagnostic on stdout, nothing on stderr
\*   both       exit 1, the colon diagnostic on stdout and a summary line on stderr
\*   nospawn    the executable is found but cannot be started
ToolKinds ==
    {"accept", "silent", "colon", "compact", "traceback", "stdout", "both", "nospawn"}

ColonLine(path) == path \o <<":", "2", ":", "1", ":", " ", "E">>

CompactLine(path) ==
    path \o <<":", " ", "l", "i", "n", "e", " ", "2", ",", " ", "c", "o", "l", " ", "1",
              ",", " ", "E">>

\* subprocess.run(check_command + [temp_file_path], capture_output=True, text=True,
\* check=False), its output already cut into lines
subprocess_run(check_command, temp_file_path) ==
    CASE tool = "accept"    -> [returncode |-> 0, stdout |-> <<>>, stderr |-> <<>>]
      [] tool = "silent"    -> [returncode |-> 1, stdout |-> <<>>, stderr |-> <<>>]
      [] tool = "colon"     -> [returncode |-> 1, stdout |-> <<>>,
                                stderr |-> <<ColonLine(temp_file_path)>>]
      [] tool = "compact"   -> [returncode |-> 1, stdout |-> <<>>,
                                stderr |-> <<CompactLine(temp_file_path)>>]
      [] tool = "traceback" -> [returncode |-> 1, stdout |-> <<>>,
                                stderr |-> <<<<"  File \"">> \o temp_file_path \o <<"\", line 2">>,
                                             <<"SyntaxError: invalid syntax">>>>]
      [] tool = "stdout"    -> [returncode |-> 1, stderr |-> <<>>,
                                stdout |-> <<ColonLine(temp_file_path)>>]
      [] tool = "both"      -> [returncode |-> 1,
                                stderr |-> <<<<"1 error generated.">>>>,
                                stdout |-> <<ColonLine(temp_file_path)>>]

Digits == {"0", "1", "2", "3", "4", "5", "6", "7", "8", "9"}

DigitValue(d) ==
    CASE d = "0" -> 0 [] d = "1" -> 1 [] d = "2" -> 2 [] d = "3" -> 3 [] d = "4" -> 4
      [] d = "5" -> 5 [] d = "6" -> 6 [] d = "7" -> 7 [] d = "8" -> 8 [] d = "9" -> 9

\* int(text) of a run of digits
RECURSIVE int(_)
int(text) ==
    IF text = <<>> THEN 0
    ELSE 10 * int(SubSeq(text, 1, Len(text) - 1)) + DigitValue(text[Len(text)])

\* the index after the digits that start at i
DigitsEnd(line, i) ==
    IF i > Len(line) THEN i
    ELSE Min({j \in i..(Len(line) + 1) : j = Len(line) + 1 \/ line[j] \notin Digits})

\* the groups (.+) sep1 (\d+) sep2 (\d+) sep3 (.+) with sep1 at index i
GroupsAt(regex, line, i) ==
    LET d1 == i + Len(regex[1])
        s2 == DigitsEnd(line, d1)
        d2 == s2 + Len(regex[2])
        s3 == DigitsEnd(line, d2)
        m  == s3 + Len(regex[3])
    IN  [ok |-> /\ i >= 2
                /\ OccursAt(line, regex[1], i)
                /\ s2 > d1
                /\ OccursAt(line, regex[2], s2)
                /\ s3 > d2
                /\ OccursAt(line, regex[3], s3)
                /\ m <= Len(line),
         line |-> SubSeq(line, d1, s2 - 1),
         column |-> SubSeq(line, d2, s3 - 1),
         message |-> SubSeq(line, m, Len(line))]

\* re.search(regex, error_line): no match (ok is false), or groups 2, 3 and 4 of
\* the match whose first group is the longest
re_search(regex, error_line) ==
    LET hits == {i \in 1..Len(error_line) : GroupsAt(regex, error_line, i).ok}
    IN  IF hits = {} THEN [ok |-> FALSE] ELSE GroupsAt(regex, error_line, Max(hits))

\* the loop over error_lines
RECURSIVE ParseLines(_, _, _, _, _)
ParseLines(result, error_lines, i, regex, temp_file_path) ==
    IF i > Len(error_lines) THEN result
    ELSE LET error_line == error_lines[i]
             match == re_search(regex, error_line)
         IN  ParseLines(
                 IF match.ok
                 THEN add_error(result, int(match.line), int(match.column),
                                match.message, temp_file_path)
                 ELSE add_error(result, 1, 1, error_line, temp_file_path),
                 error_lines, i + 1, regex, temp_file_path)

\* The runner, with the name its temporary file gets. Besides what it returns
\* (results) or that it raised, the record tells what the call did: the temporary
\* file it created (temp, NONE when none), the files it left behind (left), whether
\* the subprocess ran (ran) and its exit status.
NoRun(results) ==
    [raised |-> FALSE, results |-> results, temp |-> NONE, left |-> {},
     ran |-> FALSE, returncode |-> 0]

_check_syntax_with_external_tool(code, language, name) ==
    IF language \notin DOMAIN language_configs THEN NoRun(<<>>)
    ELSE LET config == language_configs[language]
             check_command == config.check_command
             temp_file_path == TempPath(name, language)
         IN  IF check_command = NONE THEN NoRun(<<>>)
             ELSE IF ~_is_tool_available(check_command[1])
             THEN NoRun(_check_basic_syntax(code, language))
             ELSE IF writeFails
             THEN \* temp_file.write(code) raises inside the with block: the file was
                  \* made with delete=False and the try/finally is not yet entered
                  [raised |-> TRUE, results |-> <<>>, temp |-> temp_file_path,
                   left |-> {temp_file_path}, ran |-> FALSE, returncode |-> 0]
             ELSE IF tool = "nospawn"
             THEN \* subprocess.run raises: finally removes the file, nothing catches
                  [raised |-> TRUE, results |-> <<>>, temp |-> temp_file_path,
                   left |-> {}, ran |-> FALSE, returncode |-> 0]
             ELSE LET process == subprocess_run(check_command, temp_file_path)
                      error_lines == IF ~IsEmpty(process.stderr) THEN process.stderr
                                     ELSE process.stdout
                  IN  [raised |-> FALSE,
                       results |-> IF process.returncode # 0
                                   THEN <<ParseLines(LintResult(FALSE, NONE), error_lines, 1,
                                                    config.regex, temp_file_path)>>
                                   ELSE <<>>,
                       temp |-> temp_file_path, left |-> {},
                       ran |-> TRUE, returncode |-> process.returncode]

\* the fallback analyzer is run whatever the runner returned, its results added
OrBasic_always(code, language, runner) ==
    IF runner.raised
    THEN [raised |-> TRUE, results |-> <<>>, runner |-> runner, basic |-> FALSE]
    ELSE [raised |-> FALSE,
          results |-> runner.results \o _check_basic_syntax(code, language),
          runner |-> runner, basic |-> TRUE]

\* "if not results: results = self._check_basic_syntax(code, language)"; runner is
\* what the runner did, basic whether the fallback analyzer was called from here
OrBasic(code, language, runner) ==
    IF runner.raised
    THEN [raised |-> TRUE, results |-> <<>>, runner |-> runner, basic |-> FALSE]
    ELSE IF IsEmpty(runner.results)
    THEN [raised |-> FALSE, results |-> _check_basic_syntax(code, language),
          runner |-> runner, basic |-> TRUE]
    ELSE [raised |-> FALSE, results |-> runner.results,
          runner |-> runner, basic |-> FALSE]

_check_syntax(code, language, name) ==
    OrBasic(code, language, _check_syntax_with_external_tool(code, language, name))

\* ------------------------------------------------------------------ lint

NoCheck ==
    [raised |-> FALSE, results |-> <<>>, runner |-> NoRun(<<>>), basic |-> FALSE]

\* "error['file_path'] = file_path" for every error and warning of every result
RECURSIVE SetFilePath(_, _)
SetFilePath(findings, file_path) ==
    IF findings = <<>> THEN <<>>
    ELSE <<[findings[1] EXCEPT !.file_path = file_path]>>
         \o SetFilePath(Tail(findings), file_path)

\* the results are returned as the analysis left them
UpdateFilePath_none(results, file_path) == results

RECURSIVE UpdateFilePath(_, _)
UpdateFilePath(results, file_path) ==
    IF results = <<>> THEN <<>>
    ELSE <<[results[1] EXCEPT !.errors = SetFilePath(@, file_path),
                              !.warnings = SetFilePath(@, file_path)]>>
         \o UpdateFilePath(Tail(results), file_path)

\* "os.path.exists(file_path_or_code) and not file_path_or_code.count('\n') > 0"
IsFilePath(file_path_or_code) ==
    /\ file_path_or_code \in DOMAIN fs
    /\ ~Contains(file_path_or_code, <<"\n">>)

\* the open/read of lint raises
ReadFails(file_path_or_code) ==
    IsFilePath(file_path_or_code) /\ ~fs[file_path_or_code].readable

\* the language lint settles on
ResolveLanguage(file_path_or_code, language) ==
    IF ~Falsy(language) THEN language
    ELSE IF IsFilePath(file_path_or_code) THEN _get_language_from_file(file_path_or_code)
    ELSE PY

\* "if not language or language not in self.language_configs"
NotSupported_falsy(language) == Falsy(language)

NotSupported(language) == Falsy(language) \/ language \notin DOMAIN language_configs

\* the end of lint, from the results of _check_syntax on
LintReturn(file_path, check) ==
    IF check.raised \/ IsEmpty(check.results) THEN <<>>
    ELSE IF file_path # NONE THEN UpdateFilePath(check.results, file_path)
    ELSE check.results

\* What a lint call returns (results) or that it raised, and what it did: how it
\* took its input (is_file_path, read_failed, code), the language it settled on,
\* whether it went on to _check_syntax (checked) and what that did (check).
LintRecord(file_path_or_code, language_arg, file_path, code, language, checked, check, results) ==
    [input |-> file_path_or_code, language_arg |-> language_arg,
     is_file_path |-> file_path # NONE, read_failed |-> ReadFails(file_path_or_code),
     code |-> code, language |-> language,
     checked |-> checked, check |-> check,
     raised |-> check.raised, results |-> results]

LintCheckedReturn(file_path_or_code, language_arg, file_path, code, language, check) ==
    LintRecord(file_path_or_code, language_arg, file_path, code, language, TRUE, check,
               LintReturn(file_path, check))

\* lint from "results = self._check_syntax(code, language)" on
LintChecked(file_path_or_code, language_arg, file_path, language, code, name) ==
    LintCheckedReturn(file_path_or_code, language_arg, file_path, code, language,
                      _check_syntax(code, language, name))

\* lint, with the name a temporary file gets if one is made
lint(file_path_or_code, language, name) ==
    LET file_path == IF IsFilePath(file_path_or_code) THEN file_path_or_code ELSE NONE
        lang == ResolveLanguage(file_path_or_code, language)
    IN  IF ReadFails(file_path_or_code)
        THEN LintRecord(file_path_or_code, language, file_path, <<>>, lang, FALSE, NoCheck,
                 <<add_error(LintResult(FALSE, NONE), 1, 1,
                             <<"Error reading file: ", "[Errno 13] Permission denied">>,
                             file_path)>>)
        ELSE IF NotSupported(lang)
        THEN LintRecord(file_path_or_code, language, file_path,
                        IF file_path # NONE THEN fs[file_path].data ELSE file_path_or_code,
                        lang, FALSE, NoCheck, <<>>)
        ELSE LintChecked(file_path_or_code, language, file_path, lang,
                         IF file_path # NONE THEN fs[file_path].data ELSE file_path_or_code,
                         name)

\* ---------------------------------------------------------- lint_file_diff

\* the key with the file path in it
error_key_with_path(error) ==
    <<error.line, error.column, error.message, error.file_path>>

\* the (line, column, message) key of an error
error_key(error) == <<error.line, error.column, error.message>>

\* all errors of a list of results, in order
RECURSIVE AllErrors(_)
AllErrors(results) ==
    IF results = <<>> THEN <<>> ELSE results[1].errors \o AllErrors(Tail(results))

\* new_result after the loop over result.errors
RECURSIVE AddNew(_, _, _)
AddNew(new_result, errors, original_errors) ==
    IF errors = <<>> THEN new_result
    ELSE AddNew(IF error_key(errors[1]) \notin original_errors
                THEN add_error(new_result, errors[1].line, errors[1].column,
                               errors[1].message, errors[1].file_path)
                ELSE new_result,
                Tail(errors), original_errors)

\* every new_result is kept, with or without errors
RECURSIVE new_results_all(_, _)
new_results_all(updated_results, original_errors) ==
    IF updated_results = <<>> THEN <<>>
    ELSE <<AddNew(LintResult(TRUE, updated_results[1].file_path),
                  updated_results[1].errors, original_errors)>>
         \o new_results_all(Tail(updated_results), original_errors)

RECURSIVE new_results(_, _)
new_results(updated_results, original_errors) ==
    IF updated_results = <<>> THEN <<>>
    ELSE LET result == updated_results[1]
             new_result == AddNew(LintResult(TRUE, result.file_path), result.errors,
                                  original_errors)
         IN  (IF ~new_result.success THEN <<new_result>> ELSE <<>>)
             \o new_results(Tail(updated_results), original_errors)

\* the set original_errors
ErrorKeys(errors) == {error_key(errors[i]) : i \in 1..Len(errors)}

\* lint_file_diff after its two lint calls; lints are the lint calls it made
DiffReturn(original, updated) ==
    IF original.raised
    THEN [raised |-> TRUE, results |-> <<>>, lints |-> <<original>>]
    ELSE IF updated.raised
    THEN [raised |-> TRUE, results |-> <<>>, lints |-> <<original, updated>>]
    ELSE [raised |-> FALSE,
          results |-> IF IsEmpty(updated.results) THEN <<>>
                      ELSE new_results(updated.results,
                                       ErrorKeys(AllErrors(original.results))),
          lints |-> <<original, updated>>]

DiffLints(original_file, updated_file, language, name1, name2) ==
    DiffReturn(lint(original_file, language, name1), lint(updated_file, language, name2))

\* lint_file_diff, with the names of the temporary files of its two lint calls
lint_file_diff(original_file, updated_file, name1, name2) ==
    IF Falsy(_get_language_from_file(updated_file))
    THEN [raised |-> FALSE, results |-> <<>>, lints |-> <<>>]
    ELSE DiffLints(original_file, updated_file, _get_language_from_file(updated_file),
                   name1, name2)

\* ------------------------------------------------------------ the callers

Alphabet == {"(", ")", "\n"}

\* the texts of at most MaxLen characters
Codes == UNION {[1..n -> Alphabet] : n \in 0..MaxLen}

Unsupported == <<"x">>

\* the extension of a file named in capitals
UpperPY == <<"P", "Y">>

Executables == {language_configs[l].check_command[1] :
                    l \in {k \in DOMAIN language_configs :
                              language_configs[k].check_command # NONE}}

FileA(ext) == <<"a", ".">> \o ext

FileB(ext) == <<"b", ".">> \o ext

File(data) == [readable |-> TRUE, data |-> data]

Unreadable == [readable |-> FALSE, data |-> <<>>]

NoCall == [op |-> "none", args |-> <<>>, raised |-> FALSE, results |-> <<>>, lints |-> <<>>]

\* the host: nothing installed, or every check command installed and behaving in one
\* of the ways of kinds, or installed where a temporary file cannot be written
InitHost(kinds) ==
    \/ installed = {} /\ tool = "accept" /\ writeFails = FALSE
    \/ installed = Executables /\ tool \in kinds /\ writeFails = FALSE
    \/ installed = Executables /\ tool = "accept" /\ writeFails = TRUE

\* one file a.<ext>, readable with any content or unreadable
Init ==
    /\ \E ext \in {PY, JS, CSS, Unsupported, UpperPY} :
          \/ \E data \in Codes : fs = (FileA(ext) :> File(data))
          \/ fs = (FileA(ext) :> Unreadable)
    /\ InitHost(ToolKinds)
    /\ tmpFiles = {}
    /\ call = NoCall

FreeNames == {name \in TmpNames : \A path \in tmpFiles : path[1] # name}

Left(lints) == UNION {lints[i].check.runner.left : i \in 1..Len(lints)}

\* the call is over: r tells what it returned and did
Called(op, args, r) ==
    /\ call' = [op |-> op, args |-> args,
                raised |-> r.raised, results |-> r.results, lints |-> r.lints]
    /\ tmpFiles' = tmpFiles \cup Left(r.lints)
    /\ UNCHANGED <<fs, installed, tool, writeFails>>

OneLint(r) == [raised |-> r.raised, results |-> r.results, lints |-> <<r>>]

Lint(file_path_or_code, language, name) ==
    Called("lint", <<file_path_or_code, language>>,
           OneLint(lint(file_path_or_code, language, name)))

LintFileDiff(original_file, updated_file, name1, name2) ==
    Called("lint_file_diff", <<original_file, updated_file>>,
           lint_file_diff(original_file, updated_file, name1, name2))

\* what a caller passes: a path, or the text of a file as code
Inputs == DOMAIN fs \cup {fs[path].data : path \in DOMAIN fs}

LanguageArgs == {NONE, <<>>, PY, JS, C, LUA, CSS, Unsupported}

\* a caller makes a lint call on the host and the file Init drew, and may repeat it
Next ==
    \E input \in Inputs, language \in LanguageArgs, name \in FreeNames :
        /\ call = NoCall \/ call.args = <<input, language>>
        /\ Lint(input, language, name)

Spec == Init /\ [][Next]_vars

DiffToolKinds == {"silent", "compact", "traceback"}

\* two files a.<ext> and b.<ext>, the original and the updated version, on a host
\* with nothing installed or with a check command that rejects what it is given
InitDiff ==
    /\ \E ext \in {JS, Unsupported} :
          \E a \in {File(data) : data \in Codes} \cup {Unreadable}, b \in Codes :
              fs = (FileA(ext) :> a) @@ (FileB(ext) :> File(b))
    /\ \/ installed = {} /\ tool = "accept"
       \/ installed = Executables /\ tool \in DiffToolKinds
    /\ writeFails = FALSE
    /\ tmpFiles = {}
    /\ call = NoCall

\* one call of lint_file_diff on the host and the files InitDiff drew
NextDiff ==
    /\ call = NoCall
    /\ \E original_file \in DOMAIN fs, updated_file \in DOMAIN fs,
          name1 \in FreeNames, name2 \in FreeNames :
             LintFileDiff(original_file, updated_file, name1, name2)

SpecDiff == InitDiff /\ [][NextDiff]_vars

\* the pieces a code text is made of: brackets, a line break, the two quotes, the
\* "//" comment marker, "=", the word "if" and a plain character
Pieces ==
    {<<"(">>, <<")">>, <<"\n">>, <<"\"">>, <<"'">>, <<"/", "/">>, <<"=">>,
     <<"i", "f">>, <<"x">>}

\* the texts of at most n pieces
RECURSIVE Texts(_)
Texts(n) ==
    IF n = 0 THEN {<<>>}
    ELSE LET shorter == Texts(n - 1)
         IN  shorter \cup {text \o piece : text \in shorter, piece \in Pieces}

\* languages of the generic path: "//" comments without and with the semicolon
\* heuristic, "--" comments with the condition heuristic
ScanLanguages == {JS, C, LUA}

\* a host with no file and no check command on the search path
InitScan ==
    /\ fs = [path \in {} |-> Unreadable]
    /\ installed = {}
    /\ tool = "accept"
    /\ writeFails = FALSE
    /\ tmpFiles = {}
    /\ call = NoCall

\* one call of lint on a code text, in a language of the generic path
NextScan ==
    /\ call = NoCall
    /\ \E code \in Texts(MaxPieces), language \in ScanLanguages, name \in FreeNames :
          Lint(code, language, name)

SpecScan == InitScan /\ [][NextScan]_vars

\* ---- the bracket scan of the fallback analyzer, character by character (lines
\* 331-383). call holds the position of the scan: the lines of the code, the line
\* being scanned with its comment cut off, the line and column numbers of the
\* next character, and the scan state st.

\* the texts of up to n pieces: brackets, a quote, the two comment markers, a
\* quoted "//", a line break
RECURSIVE StepTexts(_)
StepTexts(n) ==
    IF n = 0 THEN {<<>>}
    ELSE LET shorter == StepTexts(n - 1)
         IN  shorter \cup {text \o piece : text \in shorter, piece \in
                 {<<"(">>, <<")">>, <<"[">>, <<"]">>, <<"\"">>, <<"/", "/">>, <<"-", "-">>,
                  <<"\"", "/", "/", "\"">>, <<"\n">>}}

\* "in_string = False; string_char = None" at the start of a line
ResetString(st) == [st EXCEPT !.in_string = FALSE, !.string_char = "None"]

ScanStart ==
    [stack |-> <<>>, results |-> <<>>, in_string |-> FALSE, string_char |-> "None"]

\* the scan stands before the first character of the first line of the code
InitStep ==
    /\ fs = [path \in {} |-> Unreadable]
    /\ installed = {}
    /\ tool = "accept"
    /\ writeFails = FALSE
    /\ tmpFiles = {}
    /\ \E code \in StepTexts(MaxPieces), language \in {JS, LUA} :
          call = [op |-> "scan", code |-> code, language |-> language,
                  lines |-> Split(code, <<"\n">>),
                  line |-> SkipComment(Split(code, <<"\n">>)[1],
                                       language_configs[language].comment_style),
                  line_num |-> 1, col_num |-> 1,
                  st |-> ScanStart, results |-> <<>>]

\* the body of "for col_num, char in enumerate(line, 1)"
StepChar ==
    /\ call.op = "scan"
    /\ call.col_num <= Len(call.line)
    /\ call' = [call EXCEPT
                    !.st = ScanChar(call.st, call.line[call.col_num],
                                    call.line_num, call.col_num),
                    !.col_num = @ + 1]
    /\ UNCHANGED <<fs, installed, tool, writeFails, tmpFiles>>

\* the next round of "for line_num, line in enumerate(lines, 1)"
StepLine ==
    /\ call.op = "scan"
    /\ call.col_num > Len(call.line)
    /\ call.line_num < Len(call.lines)
    /\ call' = [call EXCEPT
                    !.line = SkipComment(call.lines[call.line_num + 1],
                                         language_configs[call.language].comment_style),
                    !.line_num = @ + 1,
                    !.col_num = 1,
                    !.st = ResetString(call.st)]
    /\ UNCHANGED <<fs, installed, tool, writeFails, tmpFiles>>

\* the results are those of the scan only
ScanResults_no_unclosed(st) == st.results

\* the results after "if stack: for bracket, line_num, col_num in stack: ..."
ScanResults(st) == st.results \o Unclosed(st.stack, 1)

\* the scan is over: the brackets left on the stack are reported
StepEnd ==
    /\ call.op = "scan"
    /\ call.col_num > Len(call.line)
    /\ call.line_num = Len(call.lines)
    /\ call' = [call EXCEPT !.op = "scanned", !.results = ScanResults(call.st)]
    /\ UNCHANGED <<fs, installed, tool, writeFails, tmpFiles>>

NextStep == StepChar \/ StepLine \/ StepEnd

SpecStep == InitStep /\ [][NextStep]_vars

\* the pieces of a Lua text: the word "if", "=", the comparisons "==" and "~=", a
\* plain character, the "--" comment marker and a line break
LuaPieces ==
    {<<"i", "f">>, <<"=">>, <<"=", "=">>, <<"~", "=">>, <<"x">>, <<"-", "-">>, <<"\n">>}

RECURSIVE LuaTexts(_)
LuaTexts(n) ==
    IF n = 0 THEN {<<>>}
    ELSE LET shorter == LuaTexts(n - 1)
         IN  shorter \cup {text \o piece : text \in shorter, piece \in LuaPieces}

\* one call of lint on a Lua text, luac not being installed
NextLua ==
    /\ call = NoCall
    /\ \E code \in LuaTexts(MaxPieces), name \in FreeNames : Lint(code, LUA, name)

SpecLua == InitScan /\ [][NextLua]_vars

\* ---- concurrent lint calls on one DefaultLinter: each call goes through the
\* runner in three steps, writing its temporary file (lines 248-250), running the
\* check command on it (lines 254-286) and removing it (lines 287-290). Here fs
\* holds the temporary files with their contents, and call.procs the callers.

Callers == 1..MaxCalls

ConcNames == TmpNames \cup {"/tmp/tmpC"}

ConcCodes == {<<"(">>, <<")">>}

NoProcess == [returncode |-> 0, stdout |-> <<>>, stderr |-> <<>>]

Idle ==
    [pc |-> "idle", code |-> <<>>, temp |-> NONE, read |-> NONE,
     process |-> NoProcess, results |-> <<>>]

InitConc ==
    /\ fs = [path \in {} |-> Unreadable]
    /\ installed = Executables
    /\ tool \in {"accept", "traceback"}
    /\ writeFails = FALSE
    /\ tmpFiles = {}
    /\ call = [op |-> "concurrent", procs |-> [p \in Callers |-> Idle]]

\* every name is offered, taken or not
ConcFreeNames_any == ConcNames

\* tempfile.NamedTemporaryFile opens its file with O_EXCL: a name no file has
ConcFreeNames == {name \in ConcNames : TempPath(name, JS) \notin tmpFiles}

\* "with tempfile.NamedTemporaryFile(...) as temp_file: temp_file.write(code)"
ConcWrite(p, code, name) ==
    /\ call.procs[p].pc \in {"idle", "done"}
    /\ name \in ConcFreeNames
    /\ fs' = [path \in DOMAIN fs \cup {TempPath(name, JS)} |->
                 IF path = TempPath(name, JS) THEN File(code) ELSE fs[path]]
    /\ tmpFiles' = tmpFiles \cup {TempPath(name, JS)}
    /\ call' = [call EXCEPT !.procs[p] =
                    [Idle EXCEPT !.pc = "written", !.code = code,
                                 !.temp = TempPath(name, JS)]]
    /\ UNCHANGED <<installed, tool, writeFails>>

\* "process = subprocess.run(check_command + [temp_file_path], ...)": the command
\* reads the file of that name, whatever it holds by now
ConcRun(p) ==
    /\ call.procs[p].pc = "written"
    /\ call' = [call EXCEPT
                    !.procs[p].pc = "ran",
                    !.procs[p].read =
                        IF call.procs[p].temp \in DOMAIN fs
                        THEN fs[call.procs[p].temp].data ELSE NONE,
                    !.procs[p].process =
                        IF call.procs[p].temp \in DOMAIN fs
                        THEN subprocess_run(language_configs[JS].check_command,
                                            call.procs[p].temp)
                        ELSE [returncode |-> 1, stdout |-> <<>>,
                              stderr |-> <<<<"Cannot find module">>>>]]
    /\ UNCHANGED <<fs, installed, tool, writeFails, tmpFiles>>

\* the results of the runner from the output of the process (lines 262-286), then
\* _check_syntax and the end of lint
ConcResults(code, process, temp) ==
    LintReturn(NONE,
        OrBasic(code, JS,
            [raised |-> FALSE,
             results |-> IF process.returncode # 0
                         THEN <<ParseLines(LintResult(FALSE, NONE),
                                           IF ~IsEmpty(process.stderr) THEN process.stderr
                                           ELSE process.stdout,
                                           1, language_configs[JS].regex, temp)>>
                         ELSE <<>>,
             temp |-> temp, left |-> {}, ran |-> TRUE,
             returncode |-> process.returncode]))

\* "finally: if os.path.exists(temp_file_path): os.remove(temp_file_path)", and
\* the call returns
ConcRemove(p) ==
    /\ call.procs[p].pc = "ran"
    /\ fs' = [path \in DOMAIN fs \ {call.procs[p].temp} |-> fs[path]]
    /\ tmpFiles' = tmpFiles \ {call.procs[p].temp}
    /\ call' = [call EXCEPT
                    !.procs[p].pc = "done",
                    !.procs[p].results =
                        ConcResults(call.procs[p].code, call.procs[p].process,
                                    call.procs[p].temp)]
    /\ UNCHANGED <<installed, tool, writeFails>>

NextConc ==
    \E p \in Callers :
        \/ \E code \in ConcCodes, name \in ConcNames : ConcWrite(p, code, name)
        \/ ConcRun(p)
        \/ ConcRemove(p)

SpecConc == InitConc /\ [][NextConc]_vars

\* ---- file_editor (editor/file_editor.py) over a directory of three paths. fs
\* maps a path to its file: whether it exists, its text, and whether it can be
\* opened for reading and for writing.

FilePath == <<"f">>

\* backup_path = f"{file_path}.bak"
BackupPath(file_path) == file_path \o <<".", "b", "a", "k">>

\* the file, its backup, and a file that takes no part
EditPaths == {FilePath, BackupPath(FilePath), <<"g">>}

\* a character that utf-8 does not encode (a lone surrogate)
Surrogate == "\\udc80"

Absent == [exists |-> FALSE, content |-> <<>>, readable |-> FALSE, writable |-> FALSE]

Files ==
    {Absent} \cup
    [exists : {TRUE}, content : {<<>>, <<"a">>}, readable : BOOLEAN, writable : BOOLEAN]

\* os.path.exists(path)
path_exists(files, path) == files[path].exists

\* "with open(path, 'r', encoding='utf-8') as f: ... f.read()"
open_read(files, path) ==
    [ok |-> files[path].exists /\ files[path].readable, text |-> files[path].content]

\* text.encode('utf-8') raises nothing
Encodable(text) == \A k \in 1..Len(text) : text[k] # Surrogate

\* "with open(path, 'w', encoding='utf-8') as f: f.write(text)": open creates the
\* file or empties it, then write raises on a text that cannot be encoded
open_write(files, path, text) ==
    IF files[path].exists /\ ~files[path].writable THEN [ok |-> FALSE, files |-> files]
    ELSE LET opened ==
                 [files EXCEPT ![path] =
                     IF @.exists THEN [@ EXCEPT !.content = <<>>]
                     ELSE [exists |-> TRUE, content |-> <<>>,
                           readable |-> TRUE, writable |-> TRUE]]
         IN  IF Encodable(text)
             THEN [ok |-> TRUE, files |-> [opened EXCEPT ![path].content = text]]
             ELSE [ok |-> FALSE, files |-> opened]

\* os.remove(path)
os_remove(files, path) == [files EXCEPT ![path] = Absent]

\* OHEditor.read_file: the text, or ToolError
read_file(files, file_path) == open_read(files, file_path)

\* OHEditor.write_file: the file written, or ToolError (the directory exists)
write_file(files, file_path, content) == open_write(files, file_path, content)

\* _apply_edit_snippet for a snippet that holds no marker (lines 36-75): every
\* marker pattern asks for "..." in the snippet; the
\* sections of a snippet with markers (lines 77-171) are not entered by the
\* snippets drawn here
_apply_edit_snippet(original_content, edit_snippet) ==
    CASE original_content = <<>> -> edit_snippet
      [] original_content # <<>> /\ edit_snippet = <<>> -> original_content
      [] original_content # <<>> /\ edit_snippet # <<>> /\ ~Contains(edit_snippet, <<".", ".", ".">>) ->
             edit_snippet

\* the write of the updated content, then the end of the try block: the backup
\* is removed
EditWrite(written, backup_path) ==
    IF written.ok
    THEN [ok |-> TRUE,
          files |-> IF path_exists(written.files, backup_path)
                    THEN os_remove(written.files, backup_path)
                    ELSE written.files]
    ELSE [ok |-> FALSE, files |-> written.files]

\* the backup is written, then the updated content
EditBackup(backup, file_path, original_content, edit_snippet) ==
    IF ~backup.ok THEN [ok |-> FALSE, files |-> backup.files]
    ELSE EditWrite(write_file(backup.files, file_path,
                              _apply_edit_snippet(original_content, edit_snippet)),
                   BackupPath(file_path))

\* the try block of file_editor (lines 189-226): ok is false when it raised
EditTry(files, file_path, edit_snippet) ==
    IF path_exists(files, file_path)
    THEN IF ~read_file(files, file_path).ok THEN [ok |-> FALSE, files |-> files]
         ELSE EditBackup(open_write(files, BackupPath(file_path),
                                    read_file(files, file_path).text),
                         file_path, read_file(files, file_path).text, edit_snippet)
    ELSE LET written == write_file(files, file_path, edit_snippet)
         IN  [ok |-> written.ok, files |-> written.files]

\* the restore of the except block (lines 231-236), the backup read: restored is
\* false when the restore raised
RestoreWrite(written, backup_path) ==
    IF written.ok THEN [restored |-> TRUE, files |-> os_remove(written.files, backup_path)]
    ELSE [restored |-> FALSE, files |-> written.files]

\* the except block of file_editor (lines 227-240): it always raises ToolError
EditExcept(files, file_path) ==
    IF path_exists(files, BackupPath(file_path))
    THEN IF ~open_read(files, BackupPath(file_path)).ok
         THEN [restored |-> FALSE, files |-> files]
         ELSE RestoreWrite(open_write(files, file_path,
                                      open_read(files, BackupPath(file_path)).text),
                           BackupPath(file_path))
    ELSE [restored |-> TRUE, files |-> files]

InitEdit ==
    /\ fs \in [EditPaths -> Files]
    /\ fs[<<"g">>] = [exists |-> TRUE, content |-> <<"a">>,
                        readable |-> TRUE, writable |-> TRUE]
    /\ installed = {}
    /\ tool = "accept"
    /\ writeFails = FALSE
    /\ tmpFiles = {}
    /\ call = [op |-> "none"]

\* one call file_editor(file_path, edit_snippet), with the files before it kept in call
FileEditor(file_path, edit_snippet) ==
    /\ call = [op |-> "none"]
    /\ LET tried == EditTry(fs, file_path, edit_snippet)
       IN  IF tried.ok
           THEN /\ fs' = tried.files
                /\ call' = [op |-> "file_editor", file_path |-> file_path,
                            edit_snippet |-> edit_snippet, before |-> fs,
                            raised |-> FALSE, restored |-> TRUE]
           ELSE /\ fs' = EditExcept(tried.files, file_path).files
                /\ call' = [op |-> "file_editor", file_path |-> file_path,
                            edit_snippet |-> edit_snippet, before |-> fs,
                            raised |-> TRUE,
                            restored |-> EditExcept(tried.files, file_path).restored]
    /\ UNCHANGED <<installed, tool, writeFails, tmpFiles>>

NextEdit == \E edit_snippet \in {<<>>, <<"b">>, <<Surrogate>>} : FileEditor(FilePath, edit_snippet)

SpecEdit == InitEdit /\ [][NextEdit]_vars

\* ---- get_diff and apply_patch (utils/diff.py)

\* Python: text.splitlines(), for texts whose only line boundary is "\n"
RECURSIVE splitlines(_)
splitlines(text) ==
    IF text = <<>> THEN <<>>
    ELSE IF Contains(text, <<"\n">>)
    THEN <<SplitFirst(text, <<"\n">>)>>
         \o splitlines(SubSeq(text, Find(text, <<"\n">>) + 2, Len(text)))
    ELSE <<text>>

\* Python: text.splitlines(keepends=True)
RECURSIVE splitlines_keepends(_)
splitlines_keepends(text) ==
    IF text = <<>> THEN <<>>
    ELSE IF Contains(text, <<"\n">>)
    THEN <<SubSeq(text, 1, Find(text, <<"\n">>) + 1)>>
         \o splitlines_keepends(SubSeq(text, Find(text, <<"\n">>) + 2, Len(text)))
    ELSE <<text>>

\* Python: sep.join(lines)
RECURSIVE join(_, _)
join(sep, lines) ==
    IF lines = <<>> THEN <<>>
    ELSE IF Len(lines) = 1 THEN lines[1]
    ELSE lines[1] \o sep \o join(sep, Tail(lines))

\* Python: str(n) of a natural number
RECURSIVE str(_)
str(n) ==
    IF n < 10 THEN <<CHOOSE d \in Digits : DigitValue(d) = n>>
    ELSE str(n \div 10) \o <<CHOOSE d \in Digits : DigitValue(d) = n % 10>>

\* difflib SequenceMatcher.find_longest_match over the whole of a and b, 1-based:
\* <<i, j, k>> with a[i..i+k-1] = b[j..j+k-1], k the largest there is, then i the
\* smallest, then j the smallest; k = 0 when no line is shared
find_longest_match(a, b) ==
    LET blocks == {m \in (1..Len(a)) \X (1..Len(b)) \X (1..Min({Len(a), Len(b)})) :
                      /\ m[1] + m[3] - 1 <= Len(a)
                      /\ m[2] + m[3] - 1 <= Len(b)
                      /\ SubSeq(a, m[1], m[1] + m[3] - 1) = SubSeq(b, m[2], m[2] + m[3] - 1)}
    IN  IF blocks = {} THEN <<1, 1, 0>>
        ELSE CHOOSE m \in blocks : \A o \in blocks :
                 \/ m[3] > o[3]
                 \/ m[3] = o[3] /\ m[1] < o[1]
                 \/ m[3] = o[3] /\ m[1] = o[1] /\ m[2] <= o[2]

\* the lines, each with the tag of its opcode
Tagged(tag, lines) == [k \in 1..Len(lines) |-> [tag |-> tag, line |-> lines[k]]]

\* the lines of the opcodes of SequenceMatcher(None, a, b): around the longest
\* match, left and right of it again; what is not matched is deleted from a,
\* then inserted from b
RECURSIVE get_opcodes(_, _)
get_opcodes(a, b) ==
    IF a = <<>> \/ b = <<>> \/ find_longest_match(a, b)[3] = 0
    THEN Tagged("-", a) \o Tagged("+", b)
    ELSE get_opcodes(SubSeq(a, 1, find_longest_match(a, b)[1] - 1),
                     SubSeq(b, 1, find_longest_match(a, b)[2] - 1))
         \o Tagged(" ", SubSeq(a, find_longest_match(a, b)[1],
                               find_longest_match(a, b)[1] + find_longest_match(a, b)[3] - 1))
         \o get_opcodes(SubSeq(a, find_longest_match(a, b)[1] + find_longest_match(a, b)[3],
                               Len(a)),
                        SubSeq(b, find_longest_match(a, b)[2] + find_longest_match(a, b)[3],
                               Len(b)))

\* how many lines at the start of the opcodes are unchanged
RECURSIVE LeadingEqual(_)
LeadingEqual(ops) ==
    IF ops = <<>> \/ ops[1].tag # " " THEN 0 ELSE 1 + LeadingEqual(Tail(ops))

\* difflib _format_range_unified(start, stop), start counted from 0
format_range_unified(start, length) ==
    IF length = 1 THEN str(start + 1)
    ELSE IF length = 0 THEN str(start) \o <<",">> \o str(0)
    ELSE str(start + 1) \o <<",">> \o str(length)

RECURSIVE HunkBody(_)
HunkBody(ops) ==
    IF ops = <<>> THEN <<>> ELSE <<ops[1].tag>> \o ops[1].line \o HunkBody(Tail(ops))

\* the one hunk of difflib.unified_diff for texts of fewer than 2 * n lines: the
\* unchanged lines at either end cut down to n, the header with the two ranges,
\* then the lines
Hunk(ops, n) ==
    LET cut == Max({0, LeadingEqual(ops) - n})
        end == Len(ops) - Max({0, LeadingEqual([k \in 1..Len(ops) |-> ops[Len(ops) + 1 - k]]) - n})
        group == SubSeq(ops, cut + 1, end)
    IN  <<"@", "@", " ", "-">>
        \o format_range_unified(cut, Cardinality({k \in 1..Len(group) : group[k].tag \in {" ", "-"}}))
        \o <<" ", "+">>
        \o format_range_unified(cut, Cardinality({k \in 1..Len(group) : group[k].tag \in {" ", "+"}}))
        \o <<" ", "@", "@", "\n">>
        \o HunkBody(group)

\* difflib.unified_diff(a, b, fromfile='original', tofile='updated', n=n), joined
unified_diff(a, b, n) ==
    IF \A k \in 1..Len(get_opcodes(a, b)) : get_opcodes(a, b)[k].tag = " " THEN <<>>
    ELSE <<"-", "-", "-", " ", "o", "r", "i", "g", "i", "n", "a", "l", "\n">>
         \o <<"+", "+", "+", " ", "u", "p", "d", "a", "t", "e", "d", "\n">>
         \o Hunk(get_opcodes(a, b), n)

\* get_diff(original, updated) with context_lines = 3
get_diff(original, updated) ==
    unified_diff(splitlines_keepends(original), splitlines_keepends(updated), 3)

\* re.match(r'^@@ -(\d+),\d+ \+\d+,\d+ @@', line): the first group, when it matches
HunkMatch(line) ==
    LET e1 == DigitsEnd(line, 5)
        e2 == DigitsEnd(line, e1 + 1)
        e3 == DigitsEnd(line, e2 + 2)
        e4 == DigitsEnd(line, e3 + 1)
    IN  [ok |-> /\ StartsWith(line, <<"@", "@", " ", "-">>)
                /\ e1 > 5 /\ OccursAt(line, <<",">>, e1)
                /\ e2 > e1 + 1 /\ OccursAt(line, <<" ", "+">>, e2)
                /\ e3 > e2 + 2 /\ OccursAt(line, <<",">>, e3)
                /\ e4 > e3 + 1 /\ OccursAt(line, <<" ", "@", "@">>, e4),
         group1 |-> SubSeq(line, 5, e1 - 1)]

\* Python: the index list.insert(i, x) and list[i] stand for, counted from 0
ListIndex(list, i) == IF i < 0 THEN Max({0, i + Len(list)}) ELSE Min({i, Len(list)})

\* Python: list.insert(i, x)
ListInsert(list, i, x) ==
    SubSeq(list, 1, ListIndex(list, i)) \o <<x>> \o SubSeq(list, ListIndex(list, i) + 1, Len(list))

\* Python: list.pop(i) leaves this list; i is an index of the list
ListPop(list, i) ==
    SubSeq(list, 1, ListIndex(list, i)) \o SubSeq(list, ListIndex(list, i) + 2, Len(list))

\* "result_lines[current_line] == line[1:]" is evaluated and true
LineMatches(result_lines, current_line, line) ==
    /\ current_line < Len(result_lines)
    /\ current_line >= -Len(result_lines)
    /\ result_lines[ListIndex(result_lines, current_line) + 1] = Tail(line)

\* the loop of apply_patch over the lines of the patch, from line i on
RECURSIVE PatchLoop(_, _, _, _)
PatchLoop(lines, i, result_lines, current_line) ==
    IF i > Len(lines) THEN [raised |-> FALSE, result |-> join(<<"\n">>, result_lines)]
    ELSE IF StartsWith(lines[i], <<"@", "@">>)
    THEN PatchLoop(lines, i + 1, result_lines,
                   IF HunkMatch(lines[i]).ok THEN int(HunkMatch(lines[i]).group1) - 1
                   ELSE current_line)
    ELSE IF StartsWith(lines[i], <<"-">>)
    THEN IF LineMatches(result_lines, current_line, lines[i])
         THEN PatchLoop(lines, i + 1, ListPop(result_lines, current_line), current_line)
         ELSE [raised |-> TRUE, result |-> <<>>]
    ELSE IF StartsWith(lines[i], <<"+">>)
    THEN PatchLoop(lines, i + 1, ListInsert(result_lines, current_line, Tail(lines[i])),
                   current_line + 1)
    ELSE IF StartsWith(lines[i], <<" ">>)
    THEN PatchLoop(lines, i + 1, result_lines, current_line + 1)
    ELSE PatchLoop(lines, i + 1, result_lines, current_line)

apply_patch(original, patch) == PatchLoop(splitlines(patch), 1, splitlines(original), 0)

\* the texts of up to n pieces: two lines, and a line without its line end
RECURSIVE DiffTexts(_)
DiffTexts(n) ==
    IF n = 0 THEN {<<>>}
    ELSE LET shorter == DiffTexts(n - 1)
         IN  shorter \cup {text \o piece : text \in shorter, piece \in {<<"a", "\n">>, <<"b", "\n">>, <<"a">>}}

\* two texts, no call made yet
InitPatch ==
    /\ fs = [path \in {} |-> Unreadable]
    /\ installed = {}
    /\ tool = "accept"
    /\ writeFails = FALSE
    /\ tmpFiles = {}
    /\ \E original \in DiffTexts(MaxPieces), updated \in DiffTexts(MaxPieces) :
          call = [op |-> "texts", original |-> original, updated |-> updated,
                  patch |-> <<>>, raised |-> FALSE, result |-> <<>>]

\* patch = get_diff(original, updated)
GetDiff ==
    /\ call.op = "texts"
    /\ call' = [call EXCEPT !.op = "get_diff",
                            !.patch = get_diff(call.original, call.updated)]
    /\ UNCHANGED <<fs, installed, tool, writeFails, tmpFiles>>

\* apply_patch(original, patch)
ApplyPatch ==
    /\ call.op = "get_diff"
    /\ call' = [call EXCEPT !.op = "apply_patch",
                            !.raised = apply_patch(call.original, call.patch).raised,
                            !.result = apply_patch(call.original, call.patch).result]
    /\ UNCHANGED <<fs, installed, tool, writeFails, tmpFiles>>

NextPatch == GetDiff \/ ApplyPatch

SpecPatch == InitPatch /\ [][NextPatch]_vars

\* ------------------------------------------------------------- the claims

\* the (line, column, message) fingerprint of a Finding
Fingerprint(e) == <<e.line, e.column, e.message>>

Fingerprints(results) ==
    {Fingerprint(AllErrors(results)[i]) : i \in 1..Len(AllErrors(results))}

\* the call was lint, or lint_file_diff, and it returned
LintReturned == call.op = "lint" /\ ~call.raised

DiffReturned == call.op = "lint_file_diff" /\ ~call.raised

\* lint_file_diff made its two lint calls: the language of the updated file is supported
DiffLinted == DiffReturned /\ Len(call.lints) = 2

\* C1: when the language of the updated file is supported, the errors lint_file_diff
\* returns are the errors of lint(updated), in order, whose (line, column, message)
\* is not that of any error of lint(original); file_path takes no part.
C1_DiffIsNewErrors ==
    DiffLinted =>
        AllErrors(call.results) =
            SelectSeq(AllErrors(call.lints[2].results),
                      LAMBDA e : Fingerprint(e) \notin Fingerprints(call.lints[1].results))

\* two different files, an error of the updated one dropped and another kept
C1_Witness ==
    /\ DiffLinted
    /\ call.args[1] # call.args[2]
    /\ Len(AllErrors(call.results)) >= 1
    /\ Len(AllErrors(call.results)) < Len(AllErrors(call.lints[2].results))

\* C2: lint_file_diff(x, x) returns an empty list, whichever analyzer made the findings.
C2_SameFileIsEmpty ==
    (DiffReturned /\ call.args[1] = call.args[2]) => call.results = <<>>

\* C3: two lint calls with the same input, on the same host, give the same set of
\* (line, column, message) fingerprints.
C3_LintIdempotent ==
    [][(/\ LintReturned
        /\ call'.op = "lint" /\ ~call'.raised
        /\ call'.args = call.args)
          => Fingerprints(call'.results) = Fingerprints(call.results)]_vars

\* C4: every LintResult that lint or lint_file_diff returns has
\* success = (errors is empty).
C4_SuccessIffNoErrors ==
    \A i \in 1..Len(call.results) :
        call.results[i].success = (call.results[i].errors = <<>>)

\* C5: in every returned LintResult with an error, line, column, message and
\* file_path are those of errors[0].
C5_FirstErrorFields ==
    \A i \in 1..Len(call.results) :
        call.results[i].errors # <<>> =>
            /\ call.results[i].line = call.results[i].errors[1].line
            /\ call.results[i].column = call.results[i].errors[1].column
            /\ call.results[i].message = call.results[i].errors[1].message
            /\ call.results[i].file_path = call.results[i].errors[1].file_path

\* the lint call came to start the check command, which could not be spawned
SpawnFailed ==
    /\ call.op = "lint"
    /\ call.lints[1].checked
    /\ call.lints[1].check.runner.temp # NONE
    /\ ~writeFails
    /\ tool = "nospawn"

\* C6: a check command that cannot be spawned makes lint return one Finding;
\* nothing is raised.
C6_SpawnFailureIsAFinding ==
    SpawnFailed => (~call.raised /\ Len(AllErrors(call.results)) = 1)

\* C7: a temporary file the runner created is gone when the call ends, on every
\* exit path.
C7_TempFileRemoved ==
    \A i \in 1..Len(call.lints) : call.lints[i].check.runner.temp \notin tmpFiles

\* the check command ran and exited with status zero
ToolAccepted ==
    /\ LintReturned
    /\ call.lints[1].check.runner.ran
    /\ call.lints[1].check.runner.returncode = 0

\* C8: when the check command ran and exited with status zero, lint returns an
\* empty list: no finding of the fallback analyzer is reported.
C8_AcceptedIsEmpty ==
    ToolAccepted => call.results = <<>>

\* lint went on to check a supported language whose check command is not
\* configured (NoCommand) or not on the search path (NotInstalled)
NoCommand ==
    /\ LintReturned
    /\ call.lints[1].checked
    /\ language_configs[call.lints[1].language].check_command = NONE

NotInstalled ==
    /\ LintReturned
    /\ call.lints[1].checked
    /\ language_configs[call.lints[1].language].check_command # NONE
    /\ language_configs[call.lints[1].language].check_command[1] \notin installed

\* the fingerprints of the errors of results, in order
FingerprintSeq(results) ==
    [i \in 1..Len(AllErrors(results)) |-> Fingerprint(AllErrors(results)[i])]

\* what lint returned is one run of the fallback analyzer on the code, result by result
OneFallbackRun ==
    /\ Len(call.results) =
           Len(_check_basic_syntax(call.lints[1].code, call.lints[1].language))
    /\ FingerprintSeq(call.results) =
           FingerprintSeq(_check_basic_syntax(call.lints[1].code, call.lints[1].language))

\* C9 as stated: when the external tool could not run, lint returns the findings of
\* one run of the fallback analyzer, and the runner itself returned empty.
C9_RunnerReturnsEmpty ==
    (NoCommand \/ NotInstalled) =>
        (OneFallbackRun /\ call.lints[1].check.runner.results = <<>>)

\* C9 amended: when the external tool could not run, lint returns the findings of
\* one run of the fallback analyzer, each once; the runner returns empty when no
\* check command is configured, and the fallback analyzer's results when the
\* command is not on the search path.
C9_OneFallbackRun ==
    /\ NoCommand =>
          (OneFallbackRun /\ call.lints[1].check.runner.results = <<>>)
    /\ NotInstalled =>
          /\ OneFallbackRun
          /\ call.lints[1].check.runner.results =
                 _check_basic_syntax(call.lints[1].code, call.lints[1].language)

\* the command is not installed and the fallback analyzer finds faults
C9_Witness ==
    NotInstalled /\ Len(AllErrors(call.results)) >= 2

\* lint was called with the name of a language that has no profile
UnsupportedArg ==
    /\ call.op = "lint"
    /\ ~Falsy(call.args[2])
    /\ call.args[2] \notin DOMAIN language_configs

\* C10 as stated: for every input and every language name without a profile, lint
\* returns an empty list.
C10_UnsupportedIsEmpty ==
    UnsupportedArg => (~call.raised /\ call.results = <<>>)

\* C10 amended: for every language name without a profile and every input that is
\* not an existing path whose read fails, lint returns an empty list.
C10_UnsupportedIsEmptyIfRead ==
    (UnsupportedArg /\ ~call.lints[1].read_failed) =>
        (~call.raised /\ call.results = <<>>)

\* a code with a bracket fault, linted under a language without a profile
C10_Witness ==
    /\ UnsupportedArg
    /\ ~call.lints[1].is_file_path
    /\ _check_basic_syntax(call.lints[1].code, JS) # <<>>

\* lint was given an existing path whose read failed
ReadFailed ==
    /\ call.op = "lint"
    /\ call.lints[1].read_failed

\* C11: when the input of lint is an existing path and reading it fails, lint raises
\* nothing and returns one LintResult with one error Finding that describes the
\* read failure and carries the input path; no tool is run, no temporary file made.
C11_ReadFailureIsOneFinding ==
    ReadFailed =>
        /\ ~call.raised
        /\ Len(call.results) = 1
        /\ Len(call.results[1].errors) = 1
        /\ call.results[1].warnings = <<>>
        /\ call.results[1].errors[1].message[1] = "Error reading file: "
        /\ call.results[1].errors[1].file_path = call.args[1]
        /\ call.results[1].file_path = call.args[1]
        /\ ~call.lints[1].checked
        /\ ~call.lints[1].check.runner.ran
        /\ call.lints[1].check.runner.temp = NONE
        /\ tmpFiles = {}

\* an unreadable file linted on a host where its check command is installed
C11_Witness ==
    /\ ReadFailed
    /\ call.args[2] = PY
    /\ installed # {}

\* C12: when lint is given a file path, every error and warning Finding of every
\* returned LintResult has file_path equal to that path.
C12_FindingsCarryInputPath ==
    (LintReturned /\ call.lints[1].is_file_path) =>
        \A i \in 1..Len(call.results) :
            /\ \A j \in 1..Len(call.results[i].errors) :
                   call.results[i].errors[j].file_path = call.args[1]
            /\ \A j \in 1..Len(call.results[i].warnings) :
                   call.results[i].warnings[j].file_path = call.args[1]

\* a file linted by the external tool, whose findings carried the temporary path
C12_Witness ==
    /\ LintReturned
    /\ call.lints[1].is_file_path
    /\ call.lints[1].check.runner.ran
    /\ call.results # <<>>
    /\ Len(call.lints[1].check.runner.results[1].errors) >= 2
    /\ call.lints[1].check.runner.results[1].errors[1].file_path
           = call.lints[1].check.runner.temp

\* C13: every LintResult lint_file_diff returns has success false and at least one
\* error; it returns an empty list when the updated file has no errors and when
\* the language of the updated file's extension is unsupported.
C13_DiffResultsHoldErrors ==
    DiffReturned =>
        /\ \A i \in 1..Len(call.results) :
               ~call.results[i].success /\ call.results[i].errors # <<>>
        /\ (DiffLinted /\ AllErrors(call.lints[2].results) = <<>>) => call.results = <<>>
        /\ _get_language_from_file(call.args[2]) = NONE =>
               (call.results = <<>> /\ call.lints = <<>>)

\* the tool rejected the updated file without a word: a result with no error in it
C13_Witness ==
    /\ DiffLinted
    /\ call.lints[2].results # <<>>
    /\ AllErrors(call.lints[2].results) = <<>>
    /\ call.results = <<>>

\* ---- the fallback analyzer on code texts (SpecScan: no check command installed)

IsUnclosed(e) == e.message[1] = "Unclosed bracket: '"

IsMismatched(e) == e.message[1] = "Mismatched bracket: '"

\* the code of the lint call, its lines, and the comment style of its language
ScanCode == call.lints[1].code

ScanLinesOf == Split(ScanCode, <<"\n">>)

ScanStyle == language_configs[call.lints[1].language].comment_style

\* the 1-based line and column of index p of a text
LineOf(code, p) == 1 + Cardinality({q \in 1..(p - 1) : code[q] = "\n"})

ColOf(code, p) == p - Max({0} \cup {q \in 1..(p - 1) : code[q] = "\n"})

\* "(" minus ")" among code[p..q]
Net(code, p, q) ==
    Cardinality({k \in p..q : code[k] = "("}) - Cardinality({k \in p..q : code[k] = ")"})

\* the "(" that no later ")" closes, in a text whose brackets are all round
UnmatchedOpen(code) ==
    {p \in 1..Len(code) :
        code[p] = "(" /\ \A q \in (p + 1)..Len(code) : Net(code, p, q) > 0}

\* their <<line, column, bracket>>, in the order of the text
RECURSIVE UnmatchedFrom(_, _)
UnmatchedFrom(code, p) ==
    IF p > Len(code) THEN <<>>
    ELSE (IF p \in UnmatchedOpen(code)
          THEN <<(<<LineOf(code, p), ColOf(code, p), "(">>)>>
          ELSE <<>>)
         \o UnmatchedFrom(code, p + 1)

\* the <<line, column, bracket>> of the 'Unclosed bracket' Findings returned, in order
UnclosedFound ==
    LET found == SelectSeq(AllErrors(call.results), IsUnclosed)
    IN  [i \in 1..Len(found) |-> <<found[i].line, found[i].column, found[i].message[2]>>]

\* the stack the scan ends with
FinalStack ==
    ScanLines([stack |-> <<>>, results |-> <<>>, in_string |-> FALSE, string_char |-> "None"],
              ScanLinesOf, 1, ScanStyle).stack

\* the text has no quote and no comment marker of its language
PlainCode ==
    /\ \A k \in 1..Len(ScanCode) : ScanCode[k] \notin {"\"", "'"}
    /\ ~Contains(ScanCode, ScanStyle)

\* C14: the fallback analyzer emits one 'Unclosed bracket' Finding for each opening
\* bracket left on the stack at the end of the scan, at the 1-based line and column
\* where that bracket stands in the code; in a text without quotes and comments
\* these are the "(" that nothing closes, so that a single unmatched "(" gives one
\* Finding at its place.
C14_UnclosedPerOpenBracket ==
    LintReturned =>
        /\ UnclosedFound =
               [i \in 1..Len(FinalStack) |->
                   <<FinalStack[i][2], FinalStack[i][3], FinalStack[i][1]>>]
        /\ \A i \in 1..Len(UnclosedFound) :
               ScanLinesOf[UnclosedFound[i][1]][UnclosedFound[i][2]] = UnclosedFound[i][3]
        /\ PlainCode => UnclosedFound = UnmatchedFrom(ScanCode, 1)

\* two brackets left open, on different lines
C14_Witness ==
    /\ LintReturned
    /\ PlainCode
    /\ Len(UnclosedFound) = 2
    /\ UnclosedFound[1][1] # UnclosedFound[2][1]

\* C15: for the input ")(" the fallback analyzer returns exactly one 'Mismatched
\* bracket' Finding, at line 1, column 1.
C15_OneMismatchedAtColumnOne ==
    (LintReturned /\ call.args[1] = <<")", "(">>) =>
        LET found == SelectSeq(AllErrors(call.results), IsMismatched)
        IN  /\ Len(found) = 1
            /\ found[1].line = 1
            /\ found[1].column = 1
            /\ found[1].message = <<"Mismatched bracket: '", ")", "'">>

\* ")(" was linted in C, where the semicolon heuristic runs too
C15_Witness ==
    /\ LintReturned
    /\ call.args = <<(<<")", "(">>), C>>

\* the indexes of line strictly between an opening quote and the next occurrence of
\* the same quote character, reading the quotes from index i on
RECURSIVE QuotedFrom(_, _)
QuotedFrom(line, i) ==
    LET quotes == {q \in i..Len(line) : line[q] \in {"\"", "'"}}
    IN  IF quotes = {} THEN {}
        ELSE LET open == Min(quotes)
                 same == {r \in (open + 1)..Len(line) : line[r] = line[open]}
             IN  IF same = {} THEN {}
                 ELSE ((open + 1)..(Min(same) - 1)) \cup QuotedFrom(line, Min(same) + 1)

\* the <<line, column>> of the bracket characters of the code that stand in quotes
QuotedBrackets ==
    {<<n, k>> \in {<<n, k>> \in (1..Len(ScanLinesOf)) \X (1..Len(ScanCode)) :
                      k <= Len(ScanLinesOf[n])} :
        /\ ScanLinesOf[n][k] \in DOMAIN brackets \cup closers
        /\ k \in QuotedFrom(ScanLinesOf[n], 1)}

\* the <<line, column>> of all its bracket characters
AllBrackets ==
    {<<n, k>> \in {<<n, k>> \in (1..Len(ScanLinesOf)) \X (1..Len(ScanCode)) :
                      k <= Len(ScanLinesOf[n])} :
        ScanLinesOf[n][k] \in DOMAIN brackets \cup closers}

\* the bracket Findings returned
BracketFindings ==
    SelectSeq(AllErrors(call.results), LAMBDA e : IsUnclosed(e) \/ IsMismatched(e))

\* C16: a bracket between an opening quote and the next occurrence of the same
\* quote on its line is never reported, and is neither pushed nor popped: the bracket
\* Findings are those of the code with these brackets replaced by a plain character;
\* a code whose only brackets stand in quotes yields no bracket Finding.
C16_QuotedBracketsIgnored ==
    LintReturned =>
        /\ \A i \in 1..Len(BracketFindings) :
               <<BracketFindings[i].line, BracketFindings[i].column>> \notin QuotedBrackets
        /\ LET blank == [k \in 1..Len(ScanCode) |->
                            IF <<LineOf(ScanCode, k), ColOf(ScanCode, k)>> \in QuotedBrackets
                            THEN "x" ELSE ScanCode[k]]
               found == SelectSeq(
                            AllErrors(_check_basic_syntax(blank, call.lints[1].language)),
                            LAMBDA e : IsUnclosed(e) \/ IsMismatched(e))
           IN  FingerprintSeq(<<[errors |-> BracketFindings]>>)
                   = FingerprintSeq(<<[errors |-> found]>>)
        /\ (AllBrackets = QuotedBrackets) => BracketFindings = <<>>

\* a text whose one bracket stands between two quotes
C16_Witness ==
    /\ LintReturned
    /\ AllBrackets # {}
    /\ AllBrackets = QuotedBrackets

\* text has no bracket, or has no quote and its round brackets pair up
Balanced(text) ==
    \/ \A k \in 1..Len(text) : text[k] \notin DOMAIN brackets \cup closers
    \/ /\ \A k \in 1..Len(text) : text[k] \notin {"\"", "'"}
       /\ UnmatchedOpen(text) = {}
       /\ \A q \in 1..Len(text) : Net(text, 1, q) >= 0

\* the lines of a "//" language that have the marker, nothing unmatched before it
\* and a closing bracket after it
CommentedCloser ==
    {n \in 1..Len(ScanLinesOf) :
        /\ ScanStyle = Slashes
        /\ Contains(ScanLinesOf[n], Slashes)
        /\ Balanced(SplitFirst(ScanLinesOf[n], Slashes))
        /\ \E k \in (Len(SplitFirst(ScanLinesOf[n], Slashes)) + 1)..Len(ScanLinesOf[n]) :
               ScanLinesOf[n][k] \in closers}

\* C17: in a language whose comments start with "//", a line whose only unmatched
\* closing bracket stands after the marker yields no Finding for that line, from the
\* bracket scan or from the per-language heuristics.
C17_CommentedCloserIsSilent ==
    LintReturned =>
        \A n \in CommentedCloser :
            \A i \in 1..Len(AllErrors(call.results)) : AllErrors(call.results)[i].line # n

\* in C, a statement without semicolon followed by a comment that holds ")"
C17_Witness ==
    /\ LintReturned
    /\ call.lints[1].language = C
    /\ CommentedCloser # {}
    /\ \E n \in CommentedCloser : ScanLinesOf[n][1] = "x"

\* C19: every Finding of every result lint returns has line >= 1 and column >= 1.
C19_PositionsArePositive ==
    LintReturned =>
        \A i \in 1..Len(AllErrors(call.results)) :
            /\ AllErrors(call.results)[i].line >= 1
            /\ AllErrors(call.results)[i].column >= 1

\* C18: for every code the in-process Python parser accepts, lint(code) with the
\* default language returns an empty list, whether or not the python check command
\* is available.
C18_ParsedCodeIsClean ==
    (/\ LintReturned
     /\ ~call.lints[1].is_file_path
     /\ Falsy(call.args[2])
     /\ ast_parse(call.lints[1].code).ok) => call.results = <<>>

UpperCase ==
    <<"A", "B", "C", "D", "E", "F", "G", "H", "I", "J", "K", "L", "M",
      "N", "O", "P", "Q", "R", "S", "T", "U", "V", "W", "X", "Y", "Z">>

LowerCase ==
    <<"a", "b", "c", "d", "e", "f", "g", "h", "i", "j", "k", "l", "m",
      "n", "o", "p", "q", "r", "s", "t", "u", "v", "w", "x", "y", "z">>

\* Python: text.lower()
Lower(text) ==
    [k \in 1..Len(text) |->
        IF \E i \in 1..26 : UpperCase[i] = text[k]
        THEN LowerCase[CHOOSE i \in 1..26 : UpperCase[i] = text[k]]
        ELSE text[k]]

\* C20: the language of a file is looked up by its extension without regard to
\* letter case: lint on a readable file, with no language given, settles on the
\* profile of the lower-case extension and checks the file when there is one.
C20_ExtensionCaseInsensitive ==
    (/\ LintReturned
     /\ call.lints[1].is_file_path
     /\ ~call.lints[1].read_failed
     /\ Falsy(call.args[2])) =>
        /\ call.lints[1].language = _get_language_from_file(Lower(call.args[1]))
        /\ call.lints[1].checked = (_get_language_from_file(Lower(call.args[1])) # NONE)

\* ---- concurrent calls (SpecConc)

\* caller p has its temporary file
Holding(p) == call.procs[p].pc \in {"written", "ran"}

\* C21: in every interleaving of concurrent lint calls, each call's temporary file is
\* its own (no two calls hold the same file, the file is there and holds the
\* call's code until the call removes it, the check command read that code), and
\* each call returns what lint returns for its code when run alone.
C21_ConcurrentCallsIsolated ==
    \A p \in Callers :
        /\ \A q \in Callers \ {p} :
               (Holding(p) /\ Holding(q)) => call.procs[p].temp # call.procs[q].temp
        /\ Holding(p) =>
               /\ call.procs[p].temp \in DOMAIN fs
               /\ fs[call.procs[p].temp].data = call.procs[p].code
        /\ call.procs[p].pc \in {"ran", "done"} => call.procs[p].read = call.procs[p].code
        /\ call.procs[p].pc = "done" =>
               call.procs[p].results =
                   lint(call.procs[p].code, JS, call.procs[p].temp[1]).results

\* two calls with different codes both have their temporary file, the check
\* command of the first has run
C21_Witness ==
    /\ Holding(1) /\ Holding(2)
    /\ call.procs[1].code # call.procs[2].code
    /\ call.procs[1].pc = "ran"
    /\ tool = "traceback"

\* ---- the runner's reading of the tool's output

\* the check command of the lint call ran and exited with non-zero status
ToolRejected ==
    /\ LintReturned
    /\ call.lints[1].check.runner.ran
    /\ call.lints[1].check.runner.returncode # 0

\* what the check command printed in that call
ToolOutput ==
    subprocess_run(language_configs[call.lints[1].language].check_command,
                   call.lints[1].check.runner.temp)

\* C22: when the check command exits with non-zero status the runner returns one
\* LintResult with success false, holding one Finding for every line of the tool's
\* stdout and stderr together: no output line is dropped.
C22_OneFindingPerOutputLine ==
    ToolRejected =>
        /\ Len(call.lints[1].check.runner.results) = 1
        /\ ~call.lints[1].check.runner.results[1].success
        /\ Len(call.lints[1].check.runner.results[1].errors)
               = Len(ToolOutput.stdout) + Len(ToolOutput.stderr)

\* C23: one call of the fallback analyzer returns an empty sequence or exactly one
\* LintResult that holds all its Findings; never more than one LintResult.
C23_OneResultPerCall ==
    LintReturned =>
        /\ Len(call.results) <= 1
        /\ call.results =
               _check_basic_syntax(call.lints[1].code, call.lints[1].language)

\* line n of the code is flagged by the missing-terminator heuristic
FlaggedNoSemicolon(n) ==
    \E i \in 1..Len(AllErrors(call.results)) :
        /\ AllErrors(call.results)[i].line = n
        /\ AllErrors(call.results)[i].message = <<"Missing semicolon at end of line">>

\* the comment-stripped text of a line, without the blanks around it
StrippedText(line) == Strip(SplitFirst(line, Slashes))

\* C26: in a C-family language a line is flagged by the missing-terminator heuristic
\* exactly when its comment-stripped text is non-empty, is no preprocessor
\* directive, does not end in ';', '{', '}' or ':' and holds no allowlisted
\* keyword; a statement without terminator before a // comment is flagged.
C26_TerminatorOnStrippedText ==
    (LintReturned /\ call.lints[1].language \in {SWIFT, CPP, C}) =>
        \A n \in 1..Len(ScanLinesOf) :
            FlaggedNoSemicolon(n) <=>
                /\ StrippedText(ScanLinesOf[n]) # <<>>
                /\ ~StartsWith(StrippedText(ScanLinesOf[n]), Hash)
                /\ \A end \in {";", "{", "}", ":"} :
                       ~EndsWith(StrippedText(ScanLinesOf[n]), <<end>>)
                /\ \A keyword \in Keywords :
                       ~Contains(StrippedText(ScanLinesOf[n]), keyword)

\* line n of the code is flagged by the assignment-in-condition heuristic
FlaggedAssignment(n) ==
    \E i \in 1..Len(AllErrors(call.results)) :
        /\ AllErrors(call.results)[i].line = n
        /\ AllErrors(call.results)[i].message[1]
               = "Possible use of assignment (=) instead of equality (==) in condition"

\* text has an "=" that is part of no "==" and no "~="
BareEquals(text) ==
    \E k \in 1..Len(text) :
        /\ text[k] = "="
        /\ k > 1 => text[k - 1] \notin {"=", "~"}
        /\ k < Len(text) => text[k + 1] # "="

\* C27: in a Lua-family language a line is flagged exactly when its text before any
\* "--" comment holds "if" and an "=" that is part of no "==" and no "~="; a line
\* with an "==" comparison and a separate bare "=" is flagged.
C27_BareEqualsInCondition ==
    (LintReturned /\ call.lints[1].language \in {LUA, LUAU}) =>
        \A n \in 1..Len(ScanLinesOf) :
            FlaggedAssignment(n) <=>
                /\ Contains(SplitFirst(ScanLinesOf[n], Dashes), <<"i", "f">>)
                /\ BareEquals(SplitFirst(ScanLinesOf[n], Dashes))

\* ---- the bracket scan step by step (SpecStep)

\* the pairs of brackets
Pairs == {<<"(", ")">>, <<"[", "]">>, <<"{", "}">>}

Openers == {pair[1] : pair \in Pairs}

Closers == {pair[2] : pair \in Pairs}

\* the step scans the character call.line[call.col_num] as a bracket: it is not
\* inside a string literal
BracketStep ==
    /\ call.op = "scan"
    /\ call'.op = "scan"
    /\ call'.line_num = call.line_num
    /\ call'.col_num = call.col_num + 1
    /\ ~call.st.in_string

\* the closing bracket c closes the top of stack
ClosesTop(stack, c) == stack # <<>> /\ <<stack[Len(stack)][1], c>> \in Pairs

\* C24: a closing bracket met with an empty stack or a non-matching opener on top
\* emits one 'Mismatched bracket' Finding at its position and leaves the stack
\* unchanged; one that matches the top removes the top entry and emits nothing;
\* an opening bracket pushes one entry with its character, line and column.
C24_ScanRules ==
    [][BracketStep =>
         LET char == call.line[call.col_num]
             before == call.st
             after == call'.st
         IN  /\ (char \in Closers /\ ~ClosesTop(before.stack, char)) =>
                    /\ after.stack = before.stack
                    /\ Len(after.results) = Len(before.results) + 1
                    /\ SubSeq(after.results, 1, Len(before.results)) = before.results
                    /\ Fingerprints(<<after.results[Len(after.results)]>>) =
                           {<<call.line_num, call.col_num,
                              <<"Mismatched bracket: '", char, "'">>>>}
             /\ (char \in Closers /\ ClosesTop(before.stack, char)) =>
                    /\ after.stack = SubSeq(before.stack, 1, Len(before.stack) - 1)
                    /\ after.results = before.results
             /\ char \in Openers =>
                    /\ after.stack =
                           Append(before.stack, <<char, call.line_num, call.col_num>>)
                    /\ after.results = before.results]_vars

\* the scan has met a closer that does not match the opener on top, and goes on
C24_Witness ==
    /\ call.op = "scan"
    /\ call.st.stack # <<>>
    /\ call.st.results # <<>>
    /\ call.st.results[1].errors[1].column > call.st.stack[1][3]
    /\ call.st.results[1].errors[1].line = call.st.stack[1][2]

\* the scan has ended
Scanned == call.op = "scanned"

\* every comment marker of the code stands inside a quoted string of its line
MarkersQuoted ==
    \A n \in 1..Len(call.lines) : \A k \in 1..Len(call.lines[n]) :
        OccursAt(call.lines[n], language_configs[call.language].comment_style, k) =>
            {k, k + 1} \subseteq QuotedFrom(call.lines[n], 1)

\* the scan of the lines as they stand, nothing cut off
RECURSIVE WholeLines(_, _, _)
WholeLines(st, lines, line_num) ==
    IF line_num > Len(lines) THEN st
    ELSE WholeLines(ScanLine(ResetString(st), lines[line_num], line_num, 1),
                    lines, line_num + 1)

BeforeMarker(line, marker) ==
    LET at == {k \in 1..Len(line) : OccursAt(line, marker, k)}
    IN  IF at = {} THEN line ELSE SubSeq(line, 1, Min(at) - 1)

\* the positions of line[i..] that a string literal takes up, quotes included; a
\* literal that is not closed runs to the end of the line
RECURSIVE StringFrom(_, _)
StringFrom(line, i) ==
    LET quotes == {q \in i..Len(line) : line[q] \in {"\"", "'"}}
    IN  IF quotes = {} THEN {}
        ELSE LET open == Min(quotes)
                 same == {r \in (open + 1)..Len(line) : line[r] = line[open]}
             IN  IF same = {} THEN open..Len(line)
                 ELSE (open..Min(same)) \cup StringFrom(line, Min(same) + 1)

\* the bracket characters of a line that remain after comment stripping and
\* string exclusion
LineWord(line, marker) ==
    LET text == BeforeMarker(line, marker)
        kept == {k \in 1..Len(text) :
                    text[k] \in Openers \cup Closers /\ k \notin StringFrom(text, 1)}
        KeptChar(char) == char \in Openers \cup Closers
        Mark(k) == IF k \in kept THEN text[k] ELSE "."
    IN  SelectSeq([k \in 1..Len(text) |-> Mark(k)], KeptChar)

RECURSIVE CodeWord(_, _, _)
CodeWord(lines, n, marker) ==
    IF n > Len(lines) THEN <<>>
    ELSE LineWord(lines[n], marker) \o CodeWord(lines, n + 1, marker)

\* the remaining bracket characters of the code that was scanned
Word == CodeWord(call.lines, 1, language_configs[call.language].comment_style)

\* a word is well-nested when taking out adjacent pairs again and again leaves nothing
RECURSIVE Reduce(_)
Reduce(word) ==
    LET at == {i \in 1..(Len(word) - 1) : <<word[i], word[i + 1]>> \in Pairs}
    IN  IF at = {} THEN word
        ELSE Reduce(SubSeq(word, 1, Min(at) - 1) \o SubSeq(word, Min(at) + 2, Len(word)))

WellNested(word) == Reduce(word) = <<>>

\* <<rejected closers, stack depth>> after word[i..], read with the openers in
\* open still waiting, the last one on top
RECURSIVE Count(_, _, _, _)
Count(word, i, open, rejected) ==
    IF i > Len(word) THEN <<rejected, Len(open)>>
    ELSE IF word[i] \in Openers THEN Count(word, i + 1, Append(open, word[i]), rejected)
    ELSE IF open # <<>> /\ <<open[Len(open)], word[i]>> \in Pairs
    THEN Count(word, i + 1, SubSeq(open, 1, Len(open) - 1), rejected)
    ELSE Count(word, i + 1, open, rejected + 1)

BracketFound == SelectSeq(AllErrors(call.results), LAMBDA e : IsUnclosed(e) \/ IsMismatched(e))

\* C28: the fallback analyzer reports no bracket Finding exactly when the bracket
\* characters that remain after comment stripping and string exclusion are
\* well-nested, and the number of bracket Findings is the number of rejected
\* closers plus the final stack depth; the Findings are those that
\* _check_basic_syntax returns for the code.
C28_CleanIffWellNested ==
    Scanned =>
        /\ (BracketFound = <<>>) <=> WellNested(Word)
        /\ Len(BracketFound) = Count(Word, 1, <<>>, 0)[1] + Count(Word, 1, <<>>, 0)[2]
        /\ Len(SelectSeq(AllErrors(call.results), IsMismatched)) = Count(Word, 1, <<>>, 0)[1]
        /\ Len(SelectSeq(AllErrors(call.results), IsUnclosed)) = Count(Word, 1, <<>>, 0)[2]
        /\ FingerprintSeq(call.results) =
               FingerprintSeq(_check_basic_syntax(call.code, call.language))

\* a closer was rejected and an opener is left open: two bracket Findings
C28_Witness ==
    /\ Scanned
    /\ Count(Word, 1, <<>>, 0) = <<1, 1>>
    /\ Len(BracketFound) = 2

\* ---- file_editor (SpecEdit)

\* file_editor raised
EditRaised == call.op = "file_editor" /\ call.raised

\* the path holds what it held before the call: no file, or the same text
SameFile(path) ==
    /\ fs[path].exists = call.before[path].exists
    /\ fs[path].content = call.before[path].content

\* C29: whenever file_editor(file_path, edit_snippet) raises, file_path holds what
\* it held before the call and no other file has been created, changed or
\* deleted, also when file_path + '.bak' existed before the call.
C29_RaiseLeavesFilesAlone ==
    EditRaised => \A path \in EditPaths : SameFile(path)

\* ---- get_diff and apply_patch (SpecPatch)

\* C30: apply_patch(original, get_diff(original, updated)) raises nothing and
\* returns the lines of updated joined by newlines.
C30_PatchRoundTrip ==
    call.op = "apply_patch" =>
        /\ ~call.raised
        /\ call.result = join(<<"\n">>, splitlines(call.updated))

====
